---------------------------- MODULE Spec2Model ----------------------------
(***************************************************************************)
(* The weather dashboard component: src/src/App.tsx (the weatherapi.com    *)
(* version) and src/unnamed/part_000 (the rapidapi open-weather version of *)
(* the same component).  The component's state is the five useState cells; *)
(* every event handler (mount effect, onChange, onKeyPress, onClick, the   *)
(* continuation of fetchData after its await) is one action.  A handler is *)
(* modelled by the list of setter calls it makes, in program order, which  *)
(* is then applied to the state cells.                                     *)
(*                                                                         *)
(* Conventions                                                             *)
(*   - a nullable value is a set with at most one element: Null is {} and  *)
(*     Some(v) is {v};                                                     *)
(*   - a JSON object is a record; a property that is undefined is a field  *)
(*     that is not in the record's DOMAIN;                                 *)
(*   - temperatures are fixed-point numbers in tenths of a degree          *)
(*     (21.6 is 216), so that rounding is something the model computes.    *)
(***************************************************************************)
EXTENDS Integers, Sequences, FiniteSets, TLC

VARIABLES
    variant,     \* which source file is running: "App" or "part_000"
    data,        \* useState<WeatherData | null>(null)
    loading,     \* useState(false)
    city,        \* useState("skardu")
    bgImage,     \* useState("")
    error,       \* useState<string | null>(null)
    mounted,     \* the mount effect (useEffect(..., [])) has run
    calls,       \* the query of every fetchData call so far, in issue order
    pending,     \* the calls (indices of calls) still awaiting their response
    response,    \* what the await delivered to the continuation run last
    updates,     \* the setter calls of the part of fetchData run last, in order
    weatherArr,  \* updateBackground's argument (SpecBg only)
    pc           \* SpecBg only: "input" before updateBackground ran, "done" after

vars == <<variant, data, loading, city, bgImage, error, mounted, calls,
          pending, response, updates, weatherArr, pc>>

-----------------------------------------------------------------------------
(* Bounds *)

\* The number of fetchData calls in one run.
MaxCalls == 3

\* The length of the array handed to updateBackground in SpecBg.
MaxDescs == 2

\* What the user types into the input box (it starts as "skardu").
Cities == {"Paris", "Tokyo"}

-----------------------------------------------------------------------------
(* Values *)

Null == {}
Undefined == {}
Some(v) == {v}
Get(o) == CHOOSE v \in o : TRUE

Has(obj, key) == key \in DOMAIN obj

ErrorMsg == "City not found. Please try again."

\* Mutant of includes: the match ignores letter case.
toLowerCase(str) ==
    LET upper == "ABCDEFGHIJKLMNOPQRSTUVWXYZ"
        lower == "abcdefghijklmnopqrstuvwxyz"
        low(c) == IF \E k \in 1..26 : SubSeq(upper, k, k) = c
                  THEN LET k == CHOOSE k \in 1..26 : SubSeq(upper, k, k) = c
                       IN  SubSeq(lower, k, k)
                  ELSE c
        F[i \in 0..Len(str)] ==
            IF i = 0 THEN "" ELSE F[i - 1] \o low(SubSeq(str, i, i))
    IN  F[Len(str)]

includes_ignoreCase(desc, condition) ==
    LET d == toLowerCase(desc)
        c == toLowerCase(condition)
    IN  \E i \in 1..(Len(d) - Len(c) + 1) : SubSeq(d, i, i + Len(c) - 1) = c

\* String.prototype.includes: condition occurs in desc as a contiguous,
\* case-sensitive substring.
includes(desc, condition) ==
    \E i \in 1..(Len(desc) - Len(condition) + 1) :
        SubSeq(desc, i, i + Len(condition) - 1) = condition

\* Math.round on a fixed-point number of tenths: the nearest integer, a half
\* rounding towards plus infinity.
MathRound(tenths) == (tenths + 5) \div 10

-----------------------------------------------------------------------------
(* Setter calls *)

setData(v) == [set |-> "setData", value |-> v]
setLoading(v) == [set |-> "setLoading", value |-> v]
setCity(v) == [set |-> "setCity", value |-> v]
setBgImage(v) == [set |-> "setBgImage", value |-> v]
setError(v) == [set |-> "setError", value |-> v]

\* The state cells as one record, and one setter call applied to it.
Cells == [data |-> data, loading |-> loading, city |-> city,
          bgImage |-> bgImage, error |-> error]

Apply(st, u) ==
    CASE u.set = "setData" -> [st EXCEPT !.data = u.value]
      [] u.set = "setLoading" -> [st EXCEPT !.loading = u.value]
      [] u.set = "setCity" -> [st EXCEPT !.city = u.value]
      [] u.set = "setBgImage" -> [st EXCEPT !.bgImage = u.value]
      [] u.set = "setError" -> [st EXCEPT !.error = u.value]

RECURSIVE ApplyAll(_, _)
ApplyAll(st, us) ==
    IF us = <<>> THEN st ELSE ApplyAll(Apply(st, Head(us)), Tail(us))

\* A handler's setter calls take effect on the cells, in order.
Commit(us) ==
    LET st == ApplyAll(Cells, us)
    IN  /\ data' = st.data
        /\ loading' = st.loading
        /\ city' = st.city
        /\ bgImage' = st.bgImage
        /\ error' = st.error

-----------------------------------------------------------------------------
(* src/src/App.tsx: the background table and updateBackground *)

\* Object.entries(backgroundImages): the entries in insertion order.
backgroundImages ==
    << [condition |-> "Clear",
        url |-> "https://images.unsplash.com/photo-1601134467661-3a775e007848"],
       [condition |-> "Clouds",
        url |-> "https://images.unsplash.com/photo-1483977399921-6cf94f6fdc3a"],
       [condition |-> "Rain",
        url |-> "https://images.unsplash.com/photo-1438449805895-5918d2267f19"],
       [condition |-> "Snow",
        url |-> "https://images.unsplash.com/photo-1491002052546-bf38f186af56"],
       [condition |-> "Moderate snow showers",
        url |-> "https://example.com/moderate-snow-image.jpg"],
       [condition |-> "Heavy snow showers",
        url |-> "https://example.com/heavy-snow-image.jpg"],
       [condition |-> "Thunderstorm",
        url |-> "https://images.unsplash.com/photo-1530533718754-001d3088360a"],
       [condition |-> "default",
        url |-> "https://images.unsplash.com/photo-1504608524841-42fe6f032b5b"] >>

\* backgroundImages.default
backgroundImages_default ==
    (CHOOSE e \in {backgroundImages[k] : k \in 1..Len(backgroundImages)} :
        e.condition = "default").url

\* weatherArr.map((weather) => weather.description)
weatherDescriptions(arr) ==
    [i \in 1..Len(arr) |->
        IF Has(arr[i], "description") THEN Some(arr[i].description)
        ELSE Undefined]

\* weatherDescriptions.some((desc) => desc.includes(condition)): the
\* descriptions are tried in order; an undefined one throws a TypeError
\* unless an earlier one already matched.
RECURSIVE someIncludes(_, _)
someIncludes(descs, condition) ==
    IF descs = <<>> THEN "false"
    ELSE IF Head(descs) = Undefined THEN "throw"
    ELSE IF includes(Get(Head(descs)), condition) THEN "true"
    ELSE someIncludes(Tail(descs), condition)

\* The for loop of updateBackground from entry k on, and the fallback after
\* it.  The result is the setter calls made and whether the scan threw.
RECURSIVE scanBackgrounds(_, _)
scanBackgrounds(descs, k) ==
    IF k > Len(backgroundImages)
    THEN [effects |-> << setBgImage(backgroundImages_default) >>,
          threw |-> FALSE]
    ELSE LET hit == someIncludes(descs, backgroundImages[k].condition)
         IN  IF hit = "throw" THEN [effects |-> <<>>, threw |-> TRUE]
             ELSE IF hit = "true"
             THEN [effects |-> << setBgImage(backgroundImages[k].url) >>,
                   threw |-> FALSE]
             ELSE scanBackgrounds(descs, k + 1)

\* Mutant of updateBackground: only the first weather entry is looked at.
updateBackground_firstOnly(arr) ==
    scanBackgrounds(
        weatherDescriptions(IF arr = <<>> THEN arr ELSE << arr[1] >>), 1)

updateBackground(arr) == scanBackgrounds(weatherDescriptions(arr), 1)

-----------------------------------------------------------------------------
(* src/src/App.tsx: fetchData *)

\* Mutant of fetchDataStart: the old snapshot is cleared when a fetch starts.
fetchDataStart_clearsData ==
    << setLoading(TRUE), setError(Null), setData(Null) >>

\* The two setter calls fetchData makes before it awaits the request.
fetchDataStart == << setLoading(TRUE), setError(Null) >>

\* Building formattedData throws a TypeError (a property of undefined is
\* read) when location, current or current.condition is missing.
mappingThrows(weatherData) ==
    \/ ~Has(weatherData, "location")
    \/ ~Has(weatherData, "current")
    \/ ~Has(weatherData.current, "condition")

\* Mutant of formattedData: the temperatures are rounded when stored.
formattedData_rounded(weatherData) ==
    LET current == weatherData.current
        condition == current.condition
        main == [temp |-> 10 * MathRound(current.temp_c),
                 feels_like |-> 10 * MathRound(current.feelslike_c),
                 temp_min |-> 10 * MathRound(current.temp_c),
                 temp_max |-> 10 * MathRound(current.temp_c),
                 pressure |-> current.pressure_mb,
                 humidity |-> current.humidity]
    IN  [name |-> weatherData.location.name,
         weather |->
            << IF Has(condition, "text")
               THEN [id |-> condition.code,
                     main |-> condition.text,
                     description |-> condition.text,
                     icon |-> "https:" \o condition.icon]
               ELSE [id |-> condition.code,
                     icon |-> "https:" \o condition.icon] >>,
         main |-> main]

\* The transformation of the provider's body into WeatherData.  A missing
\* condition.text leaves main and description undefined.
formattedData(weatherData) ==
    LET current == weatherData.current
        condition == current.condition
        main == [temp |-> current.temp_c,
                 feels_like |-> current.feelslike_c,
                 temp_min |-> current.temp_c,
                 temp_max |-> current.temp_c,
                 pressure |-> current.pressure_mb,
                 humidity |-> current.humidity]
    IN  [name |-> weatherData.location.name,
         weather |->
            << IF Has(condition, "text")
               THEN [id |-> condition.code,
                     main |-> condition.text,
                     description |-> condition.text,
                     icon |-> "https:" \o condition.icon]
               ELSE [id |-> condition.code,
                     icon |-> "https:" \o condition.icon] >>,
         main |-> main]

\* Mutant of tryBlock: the call of updateBackground is left out.
tryBlock_noBackground(res) ==
    IF res.kind = "rejected" THEN [effects |-> <<>>, threw |-> TRUE]
    ELSE IF ~Has(res.data, "location") \/ ~Has(res.data, "current")
            \/ ~Has(res.data.current, "condition")
    THEN [effects |-> <<>>, threw |-> TRUE]
    ELSE [effects |-> << setData(Some(formattedData(res.data))) >>,
          threw |-> FALSE]

\* The try block: the setter calls made and whether it threw.  axios rejects
\* on a network error and on a status outside 2xx.
tryBlock(res) ==
    IF res.kind = "rejected" THEN [effects |-> <<>>, threw |-> TRUE]
    ELSE IF mappingThrows(res.data) THEN [effects |-> <<>>, threw |-> TRUE]
    ELSE LET fd == formattedData(res.data)
             ub == updateBackground(fd.weather)
         IN  [effects |-> << setData(Some(fd)) >> \o ub.effects,
              threw |-> ub.threw]

\* Mutant of catchBlock: the displayed snapshot is not cleared.
catchBlock_keepsData == << setError(Some(ErrorMsg)) >>

catchBlock == << setError(Some(ErrorMsg)), setData(Null) >>

finallyBlock == << setLoading(FALSE) >>

-----------------------------------------------------------------------------
(* src/unnamed/part_000: the background table, updateBackground, fetchData *)

backgroundImages_0 ==
    << [condition |-> "Clear",
        url |-> "https://images.unsplash.com/photo-1601134467661-3a775e007848"],
       [condition |-> "Clouds",
        url |-> "https://images.unsplash.com/photo-1483977399921-6cf94f6fdc3a"],
       [condition |-> "Rain",
        url |-> "https://images.unsplash.com/photo-1438449805895-5918d2267f19"],
       [condition |-> "Snow",
        url |-> "https://images.unsplash.com/photo-1491002052546-bf38f186af56"],
       [condition |-> "Thunderstorm",
        url |-> "https://images.unsplash.com/photo-1530533718754-001d3088360a"],
       [condition |-> "default",
        url |-> "https://images.unsplash.com/photo-1504608524841-42fe6f032b5b"] >>

\* backgroundImages[weather] || backgroundImages.default, weather being a
\* string or undefined.
updateBackground_0(weather) ==
    LET entries == {backgroundImages_0[k] : k \in 1..Len(backgroundImages_0)}
        found == {e \in entries : weather = Some(e.condition)}
        imageUrl == IF found # {} THEN (CHOOSE e \in found : TRUE).url
                    ELSE (CHOOSE e \in entries : e.condition = "default").url
    IN  << setBgImage(imageUrl) >>

\* The try block: setData(response.data) is called before
\* response.data.weather[0]?.main is read, which throws when weather is
\* missing.
tryBlock_0(res) ==
    IF res.kind = "rejected" THEN [effects |-> <<>>, threw |-> TRUE]
    ELSE IF ~Has(res.data, "weather")
    THEN [effects |-> << setData(Some(res.data)) >>, threw |-> TRUE]
    ELSE LET w == res.data.weather
             weather == IF Len(w) >= 1 /\ Has(w[1], "main")
                        THEN Some(w[1].main) ELSE Undefined
         IN  [effects |-> << setData(Some(res.data)) >>
                          \o updateBackground_0(weather),
              threw |-> FALSE]

-----------------------------------------------------------------------------
(* The continuation of fetchData after the await, in either file *)

fetchDataResume(v, res) ==
    LET t == IF v = "App" THEN tryBlock(res) ELSE tryBlock_0(res)
    IN  t.effects \o (IF t.threw THEN catchBlock ELSE <<>>) \o finallyBlock

-----------------------------------------------------------------------------
(* The provider: what a request for query q can be answered with *)

\* Sample current conditions: the text, and the temperatures in tenths.
Samples ==
    { [text |-> "Clear", temp_c |-> 216, feelslike_c |-> 199],
      [text |-> "Heavy snow showers", temp_c |-> -25, feelslike_c |-> -71],
      [text |-> "Tornado", temp_c |-> 184, feelslike_c |-> 184] }

weatherApiBody(q, s) ==
    [location |-> [name |-> q],
     current |-> [condition |-> [code |-> 1000, text |-> s.text,
                                 icon |-> "//cdn.weatherapi.com/113.png"],
                  temp_c |-> s.temp_c,
                  feelslike_c |-> s.feelslike_c,
                  pressure_mb |-> 1012,
                  humidity |-> 40]]

\* 2xx bodies that are not what the mapping expects.
malformedBodies(q) ==
    { [error |-> [code |-> 1006]],
      [location |-> [name |-> q],
       current |-> [temp_c |-> 216, feelslike_c |-> 199,
                    pressure_mb |-> 1012, humidity |-> 40]],
      [location |-> [name |-> q],
       current |-> [condition |-> [code |-> 1000,
                                   icon |-> "//cdn.weatherapi.com/113.png"],
                    temp_c |-> 216, feelslike_c |-> 199,
                    pressure_mb |-> 1012, humidity |-> 40]] }

openWeatherBody(q, w) ==
    [name |-> q,
     weather |-> w,
     main |-> [temp |-> 216, feels_like |-> 199, temp_min |-> 201,
               temp_max |-> 233, pressure |-> 1012, humidity |-> 40]]

openWeatherBodies(q) ==
    { openWeatherBody(q, << [id |-> 800, main |-> "Clear",
                             description |-> "clear sky", icon |-> "01d"] >>),
      openWeatherBody(q, << [id |-> 701, main |-> "Mist",
                             description |-> "mist", icon |-> "50d"] >>),
      openWeatherBody(q, <<>>) }

malformedBodies_0(q) == { [message |-> "city not found"] }

fulfilled(body) == [kind |-> "fulfilled", status |-> 200, data |-> body]

rejections ==
    { [kind |-> "rejected", status |-> 0],     \* network error
      [kind |-> "rejected", status |-> 400] }  \* a status outside 2xx

Responses(v, q) ==
    rejections \cup
    { fulfilled(b) :
        b \in IF v = "App"
              THEN {weatherApiBody(q, s) : s \in Samples} \cup malformedBodies(q)
              ELSE openWeatherBodies(q) \cup malformedBodies_0(q) }

NoResponse == [call |-> 0, result |-> [kind |-> "none"]]

-----------------------------------------------------------------------------
(* Rendering *)

\* {Math.round(data.main.temp)}°C
renderTemp(d) == ToString(MathRound(d.main.temp)) \o "°C"

-----------------------------------------------------------------------------
(* The component's events *)

Init ==
    /\ variant \in {"App", "part_000"}
    /\ data = Null
    /\ loading = FALSE
    /\ city = "skardu"
    /\ bgImage = ""
    /\ error = Null
    /\ mounted = FALSE
    /\ calls = <<>>
    /\ pending = {}
    /\ response = NoResponse
    /\ updates = <<>>
    /\ weatherArr = <<>>
    /\ pc = "app"

\* fetchData up to its await: the two setter calls, then the request for
\* the current query is sent.
fetchData ==
    /\ Len(calls) < MaxCalls
    /\ Commit(fetchDataStart)
    /\ updates' = fetchDataStart
    /\ calls' = Append(calls, city)
    /\ pending' = pending \cup {Len(calls) + 1}
    /\ UNCHANGED <<variant, response, weatherArr, pc>>

\* useEffect(() => { fetchData(); }, [])
Mount ==
    /\ pc = "app"
    /\ ~mounted
    /\ mounted' = TRUE
    /\ fetchData

\* onChange={(e) => setCity(e.target.value)}
Keystroke(value) ==
    /\ mounted
    /\ Commit(<< setCity(value) >>)
    /\ UNCHANGED <<variant, mounted, calls, pending, response, updates,
                   weatherArr, pc>>

\* onClick={fetchData}
Search ==
    /\ mounted
    /\ fetchData
    /\ UNCHANGED mounted

\* onKeyPress={(e) => e.key === "Enter" && fetchData()}
KeyPress(key) ==
    /\ mounted
    /\ IF key = "Enter"
       THEN fetchData /\ UNCHANGED mounted
       ELSE UNCHANGED vars

\* Mutant of Settle: a response is applied only if its call is the one
\* issued last; a stale one just clears loading.
Settle_latestOnly(id, res) ==
    LET us == IF id = Len(calls) THEN fetchDataResume(variant, res)
              ELSE << setLoading(FALSE) >>
    IN  /\ id \in pending
        /\ Commit(us)
        /\ updates' = us
        /\ pending' = pending \ {id}
        /\ response' = [call |-> id, result |-> res]
        /\ UNCHANGED <<variant, mounted, calls, weatherArr, pc>>

\* The request of call id settles with res and the rest of fetchData runs.
Settle(id, res) ==
    /\ id \in pending
    /\ Commit(fetchDataResume(variant, res))
    /\ updates' = fetchDataResume(variant, res)
    /\ pending' = pending \ {id}
    /\ response' = [call |-> id, result |-> res]
    /\ UNCHANGED <<variant, mounted, calls, weatherArr, pc>>

Next ==
    \/ Mount
    \/ \E value \in Cities : Keystroke(value)
    \/ Search
    \/ \E key \in {"Enter", "a"} : KeyPress(key)
    \/ \E id \in pending : \E res \in Responses(variant, calls[id]) :
          Settle(id, res)

Spec == Init /\ [][Next]_vars

-----------------------------------------------------------------------------
(* updateBackground on its own: every array of up to MaxDescs weather      *)
(* entries is an input, and the one action applies updateBackground to it. *)

Descriptions ==
    {"Clear", "Tornado", "Heavy snow showers", "Moderate snow showers",
     "Snow", "Rain and Snow", "Partly cloudy", "Thunderstorm"}

weatherOf(d) == [id |-> 1000, main |-> d, description |-> d, icon |-> "https:"]

WeatherArrays ==
    UNION {[1..n -> {weatherOf(d) : d \in Descriptions}] : n \in 0..MaxDescs}

InitBg ==
    /\ variant = "App"
    /\ data = Null
    /\ loading = FALSE
    /\ city = "skardu"
    /\ bgImage = ""
    /\ error = Null
    /\ mounted = FALSE
    /\ calls = <<>>
    /\ pending = {}
    /\ response = NoResponse
    /\ updates = <<>>
    /\ weatherArr \in WeatherArrays
    /\ pc = "input"

UpdateBackground ==
    /\ pc = "input"
    /\ Commit(updateBackground(weatherArr).effects)
    /\ pc' = "done"
    /\ UNCHANGED <<variant, mounted, calls, pending, response, updates,
                   weatherArr>>

NextBg == UpdateBackground

SpecBg == InitBg /\ [][NextBg]_vars

-----------------------------------------------------------------------------
(* Vocabulary of the properties *)

\* A step in which a fetchData call starts (its request is sent).
StartStep == Len(calls') > Len(calls)

\* A step in which a call's request settles and its continuation runs.
SettleStep == pending' # pending /\ pending' \subseteq pending

\* The request answered by r failed: it was rejected (network error or a
\* status outside 2xx), or its 2xx body is not what the component maps.
Failed(r) ==
    \/ r.result.kind = "rejected"
    \/ r.result.data \in malformedBodies(calls[r.call])
                         \cup malformedBodies_0(calls[r.call])

\* A list of setter calls stores a snapshot / reports the error.
setsSnapshot(us) ==
    \E i \in 1..Len(us) : us[i].set = "setData" /\ us[i].value # Null

setsError(us) ==
    \E i \in 1..Len(us) : us[i].set = "setError" /\ us[i].value # Null

urlClear == "https://images.unsplash.com/photo-1601134467661-3a775e007848"
urlSnow == "https://images.unsplash.com/photo-1491002052546-bf38f186af56"
urlHeavySnow == "https://example.com/heavy-snow-image.jpg"
urlDefault == "https://images.unsplash.com/photo-1504608524841-42fe6f032b5b"

-----------------------------------------------------------------------------
(* Properties *)

\* C1: whenever a call's request fails (network error, non-2xx status, or a
\* 2xx body the mapping cannot process), the state right after that call's
\* continuation has data = null and error = the fixed message, whatever was
\* displayed before.
C1_FailureClearsDataAndSetsError ==
    [][(SettleStep /\ Failed(response'))
         => (data' = Null /\ error' = Some(ErrorMsg))]_vars

\* C1 witness: a failed call has just been handled while an earlier success
\* had been displayed (its background is still there).
C1_Witness ==
    /\ response.call # 0
    /\ Failed(response)
    /\ updates # fetchDataStart
    /\ bgImage # ""
    /\ data = Null
    /\ error = Some(ErrorMsg)

\* C2 (as claimed): while any call is between its start and its settlement,
\* loading is true.
C2_LoadingWhilePending == pending # {} => loading = TRUE

\* C3 (as claimed): data and error are never both present.
C3_DataErrorExclusive == ~(data # Null /\ error # Null)

\* C4: once every request has settled, what is displayed is the outcome of
\* the response that settled last: its snapshot (named after that call's
\* query) if it succeeded, nothing if it failed; whether or not that call is
\* the one issued last.
C4_LastSettledWins ==
    (pending = {} /\ response.call # 0)
      => IF Failed(response) THEN data = Null
         ELSE data # Null /\ Get(data).name = calls[response.call]

\* C4 witness: all requests settled, and the snapshot displayed belongs to
\* an earlier call whose query differs from the query issued last.
C4_Witness ==
    /\ pending = {}
    /\ Len(calls) >= 2
    /\ response.call # 0
    /\ response.call < Len(calls)
    /\ data # Null
    /\ Get(data).name = calls[response.call]
    /\ Get(data).name # calls[Len(calls)]

\* The URL of the first table entry, in table order, whose key is a
\* substring of some description; the default URL when there is none.
firstMatch(arr) ==
    LET hits == {k \in 1..Len(backgroundImages) :
                    \E i \in 1..Len(arr) :
                        /\ Has(arr[i], "description")
                        /\ includes(arr[i].description,
                                    backgroundImages[k].condition)}
    IN  IF hits = {} THEN urlDefault
        ELSE backgroundImages[CHOOSE k \in hits :
                                 \A j \in hits : k <= j].url

\* C5: updateBackground sets bgImage to the URL of the first table entry,
\* in insertion order, whose key is a substring of any of the descriptions,
\* and to the default URL when no key is; "Tornado" gives the default URL
\* and "Clear" the Clear URL.
C5_FirstMatchInTableOrder ==
    pc = "done" =>
        /\ bgImage = firstMatch(weatherArr)
        /\ (weatherArr = << weatherOf("Tornado") >> => bgImage = urlDefault)
        /\ (weatherArr = << weatherOf("Clear") >> => bgImage = urlClear)

\* C5 witness: with descriptions "Snow", "Clear" in that order the Clear
\* entry, first in the table, is chosen.
C5_Witness ==
    /\ pc = "done"
    /\ weatherArr = << weatherOf("Snow"), weatherOf("Clear") >>
    /\ bgImage = urlClear

\* C6 (as claimed): for "Heavy snow showers" the background is the URL of
\* whichever of the keys "Snow" and "Heavy snow showers" comes first in the
\* table.
C6_FirstOfTheTwoKeys ==
    (pc = "done" /\ weatherArr = << weatherOf("Heavy snow showers") >>)
      => LET two == {k \in 1..Len(backgroundImages) :
                        backgroundImages[k].condition
                            \in {"Snow", "Heavy snow showers"}}
         IN  bgImage = backgroundImages[CHOOSE k \in two :
                                           \A j \in two : k <= j].url

\* C6 (amended): for "Heavy snow showers" the background is the URL of the
\* key "Heavy snow showers": the key "Snow", though earlier in the table, is
\* not a case-sensitive substring of that text.
C6_HeavySnowEntryChosen ==
    (pc = "done" /\ weatherArr = << weatherOf("Heavy snow showers") >>)
      => /\ bgImage = urlHeavySnow
         /\ bgImage # urlSnow

\* C6 witness: updateBackground has run on "Heavy snow showers".
C6_Witness ==
    /\ pc = "done"
    /\ weatherArr = << weatherOf("Heavy snow showers") >>
    /\ bgImage = urlHeavySnow

\* C7: the stored snapshot keeps the provider's temperatures unrounded
\* (temp = temp_c, feels_like = feelslike_c, temp_min = temp_max = temp_c);
\* only the rendered text is rounded: 21.6 is stored as 21.6 and shown as
\* "22°C".
C7_SnapshotKeepsProviderTemps ==
    (variant = "App" /\ data # Null)
      => /\ response.result.kind = "fulfilled"
         /\ LET d == Get(data)
                current == response.result.data.current
            IN  /\ d.main.temp = current.temp_c
                /\ d.main.feels_like = current.feelslike_c
                /\ d.main.temp_min = current.temp_c
                /\ d.main.temp_max = current.temp_c
                /\ renderTemp(d) = ToString(MathRound(current.temp_c)) \o "°C"
                /\ (current.temp_c = 216
                      => d.main.temp = 216 /\ renderTemp(d) = "22°C")
                /\ (current.temp_c = -25
                      => d.main.temp = -25 /\ renderTemp(d) = "-2°C")

\* C7 witness: a payload with temp_c = 21.6 has been stored and is rendered
\* as "22°C".
C7_Witness ==
    /\ variant = "App"
    /\ data # Null
    /\ response.result.data.current.temp_c = 216
    /\ Get(data).main.temp = 216
    /\ renderTemp(Get(data)) = "22°C"

\* C8 (as claimed): a call first sets loading to true; its continuation
\* applies exactly one of the two outcomes (a snapshot is stored, or the
\* error is set), never both, and ends by setting loading to false.
C8_OneOutcomePerCall ==
    [][/\ StartStep => Head(updates') = setLoading(TRUE)
       /\ SettleStep =>
            /\ updates'[Len(updates')] = setLoading(FALSE)
            /\ setsSnapshot(updates') # setsError(updates')]_vars

\* C9: whenever data is present, bgImage is the URL updateBackground selects
\* for the snapshot's weather entries; and bgImage changes only in the
\* continuation of a call whose request succeeded.
C9_BackgroundFollowsData ==
    /\ []((variant = "App" /\ data # Null)
            => bgImage = firstMatch(Get(data).weather))
    /\ [][bgImage' # bgImage => (SettleStep /\ ~Failed(response'))]_vars

\* C9 witness: a failed fetch has left the background of the earlier
\* "Heavy snow showers" snapshot in place.
C9_Witness ==
    /\ variant = "App"
    /\ response.call # 0
    /\ Failed(response)
    /\ data = Null
    /\ bgImage = urlHeavySnow

\* C10: starting a fetch sets loading to true and error to null and leaves
\* data, bgImage and the query unchanged.
C10_StartFrame ==
    [][StartStep =>
         /\ loading' = TRUE
         /\ error' = Null
         /\ data' = data
         /\ bgImage' = bgImage
         /\ city' = city]_vars

\* C10 witness: a fetch has just started after an earlier success, and the
\* old snapshot is still present while loading is true.
C10_Witness ==
    /\ updates = fetchDataStart
    /\ Len(calls) >= 2
    /\ loading = TRUE
    /\ data # Null
    /\ error = Null

=============================================================================
